---------------------------- MODULE Spec2Model ----------------------------
(***************************************************************************)
(* Model of core/typesense_client.py: the retrying multi-search transport, *)
(* the paginated top-bots crawl and its on-disk cache.                     *)
(*                                                                         *)
(* The program is single threaded.  A caller invokes one top-level         *)
(* function at a time; each function is followed through its control flow  *)
(* by a program counter.  Python strings are sequences of character codes, *)
(* Python scalars are tagged records [t, s, n].                            *)
(***************************************************************************)
EXTENDS Integers, Sequences, FiniteSets, TLC

(***************************************************************************)
(* Bounds of the model.                                                    *)
(***************************************************************************)
MaxPagesBound == 3      \* max_pages arguments are drawn from 0..MaxPagesBound
MaxCalls == 2           \* fetches a caller makes one after the other
SeqPagesBound == 1      \* max_pages arguments of such a caller

(***************************************************************************)
(* Program constants.                                                      *)
(***************************************************************************)
\* A loop that runs once more than range(3).
OneMoreAttempt == 3 + 1

MAX_ATTEMPTS == 3       \* for attempt in range(3)
FIXED_BACKOFF == 2      \* time.sleep(2)
RATE_LIMITED == 429     \* e.response.status_code == 429
per_page == 48          \* per_page = 48
TAGMAP_MAX_PAGES == 10  \* max_pages=10 in get_typesense_tag_map
CHUNK == 80             \* CHUNK = 80

(***************************************************************************)
(* Python scalar values.                                                   *)
(***************************************************************************)
PyNone == [t |-> "none", s |-> <<>>, n |-> 0]
PyString(s) == [t |-> "str", s |-> s, n |-> 0]
PyInt(n) == [t |-> "int", s |-> <<>>, n |-> n]
\* A list of n strings (the tags of a document).
PyList(n) == [t |-> "list", s |-> <<>>, n |-> n]

\* bool(v): None, "", 0 and [] are falsy.
Truthy(v) ==
    CASE v.t = "none" -> FALSE
      [] v.t = "str" -> v.s # <<>>
      [] v.t = "int" -> v.n # 0
      [] v.t = "list" -> v.n # 0

\* a or b
Or(a, b) == IF Truthy(a) THEN a ELSE b

RECURSIVE Digits(_)
Digits(n) == IF n < 10 THEN <<48 + n>> ELSE Digits(n \div 10) \o <<48 + (n % 10)>>

\* str(v): the text of a scalar, "None" for None.
PyStr(v) ==
    CASE v.t = "none" -> <<78, 111, 110, 101>>
      [] v.t = "str" -> v.s
      [] v.t = "int" -> IF v.n < 0 THEN <<45>> \o Digits(-v.n) ELSE Digits(v.n)

\* The ASCII characters str.strip() removes.
Whitespace == (9..13) \cup (28..32)

RECURSIVE LStrip(_)
LStrip(s) == IF s # <<>> /\ Head(s) \in Whitespace THEN LStrip(Tail(s)) ELSE s

RECURSIVE RStrip(_)
RStrip(s) ==
    IF s # <<>> /\ s[Len(s)] \in Whitespace THEN RStrip(SubSeq(s, 1, Len(s) - 1)) ELSE s

\* s.strip()
Strip(s) == RStrip(LStrip(s))

(***************************************************************************)
(* The remote: what one HTTP attempt can come back with.                   *)
(***************************************************************************)
\* The dict multi_search_request hands back when it has nothing: {}.
EmptyDict == [t |-> "dict", shape |-> "empty", n |-> 0, pat |-> "none"]

\* A parsed body that is not a dict (a JSON array, number, string, null).
NonDict == [t |-> "other", shape |-> "empty", n |-> 0, pat |-> "none"]

\* {"results": [{"hits": [...]}]} with n hits filled in the way pat (see Hit).
HitsDict(n, pat) == [t |-> "dict", shape |-> "hits", n |-> n, pat |-> pat]

\* {"results": [null]}: a first result set that is null.
NullSetDict == [t |-> "dict", shape |-> "nullset", n |-> 0, pat |-> "none"]

\* Parsed bodies that are dicts: {}, no hits, a partial page, a page one hit
\* short of full, a full page; a page holding a null hit, a page of hits
\* without ID, a null result set.
ResponseDicts ==
    {EmptyDict, HitsDict(0, "clean"), HitsDict(per_page - 1, "clean"), HitsDict(30, "nullhit"),
     HitsDict(30, "noid"), NullSetDict}
    \cup {HitsDict(c, p) : c \in {30, per_page}, p \in {"clean", "dirty"}}

\* Bodies of a response: text that is no JSON, JSON that is no object, an object.
Bodies ==
    {[parses |-> FALSE, data |-> NonDict], [parses |-> TRUE, data |-> NonDict]}
    \cup {[parses |-> TRUE, data |-> d] : d \in ResponseDicts}

Statuses == {200, RATE_LIMITED, 500}

NoBody == [parses |-> FALSE, data |-> NonDict]

\* No response at all: the request raised (connection error, timeout).
NetworkError == [kind |-> "neterr", status |-> 0, body |-> NoBody]

HttpOutcomes ==
    {NetworkError}
    \cup {[kind |-> "http", status |-> st, body |-> NoBody] : st \in Statuses \ {200}}
    \cup {[kind |-> "http", status |-> 200, body |-> b] : b \in Bodies}

(***************************************************************************)
(* State.                                                                  *)
(***************************************************************************)
VARIABLES
    top,        \* the top-level function the caller invoked, "idle" before it does
    fs,         \* the two cache files, by filter_female_nsfw
    msrPc,      \* multi_search_request: "idle", "loop", "returned", "raised"
    attempt,    \* multi_search_request: the loop variable
    payload,    \* multi_search_request: its argument
    lastOutcome,\* the outcome of the latest attempt of the current call
    msrRet,     \* multi_search_request: the value returned
    sleeps,     \* the delays slept by the current call, in order
    nRequests,  \* HTTP requests issued by the current call
    termLogs,   \* "All attempts failed" records logged by the current call
    fPc,        \* fetch_typesense_top_bots: "idle", "loop", "await", "write",
                \* "returned", "raised"
    fArgs,      \* fetch_typesense_top_bots: max_pages, use_cache, filter_female_nsfw
    ALL_RESULTS,\* fetch_typesense_top_bots: the accumulated records
    page,       \* fetch_typesense_top_bots: the page counter
    fetchRet,   \* fetch_typesense_top_bots: the mapping returned
    fLog,       \* what the current fetch logged and did to its cache file
    reqLog,     \* the Transport calls of the current fetch, with what came back
    fsBefore,   \* the cache files as the current fetch found them
    history,    \* the fetches that ended before the current one, oldest first
    tmPc,       \* get_typesense_tag_map: "idle", "first", "second", "returned",
                \* "raised"
    tmRet,      \* get_typesense_tag_map: the tag map returned
    bPc,        \* batch lookup: "idle", "coll", "chunk", "await", "returned", "raised"
    bArgs,      \* batch lookup: bot_ids and collections as passed
    bIds,       \* batch lookup: bot_ids once sanitized
    bOut,       \* batch lookup: the mapping built so far
    bColl,      \* created_at lookup: the position of coll in collections
    bRem,       \* the list the chunks are cut from (remaining, or bot_ids)
    bI,         \* batch lookup: the loop variable i
    bLog        \* the Transport calls of the current lookup, with what came back

msrVars == <<msrPc, attempt, payload, lastOutcome, msrRet, sleeps, nRequests, termLogs>>

fetchVars == <<fPc, fArgs, ALL_RESULTS, page, fetchRet, fLog, reqLog, fsBefore>>

callerVars == <<history, tmPc, tmRet>>

batchVars == <<bPc, bArgs, bIds, bOut, bColl, bRem, bI, bLog>>

vars == <<top, fs, msrVars, fetchVars, callerVars, batchVars>>

NoOutcome == [kind |-> "none", status |-> 0, body |-> NoBody]

NoPayload == [ser |-> TRUE, filter |-> FALSE, page |-> 0, per_page |-> 0]

\* Payloads a direct caller passes: one json.dumps accepts, one it rejects.
RawPayloads == {[ser |-> b, filter |-> FALSE, page |-> 1, per_page |-> 1] : b \in BOOLEAN}

(***************************************************************************)
(* multi_search_request                                                    *)
(***************************************************************************)
\* response.raise_for_status(): raises HTTPError for 4xx and 5xx.
RaisesForStatus(status) == status >= 400 /\ status < 600

\* bool(response) is response.ok: False for every status raise_for_status
\* rejects, so the HTTPError's response is falsy in the handler's test.
ResponseTruthy(status) == ~RaisesForStatus(status)

\* getattr(e, "response", None) and e.response.status_code == 429
IsRateLimit(status) == ResponseTruthy(status) /\ status = RATE_LIMITED

\* The delay slept by the except clauses after a failed attempt.
Backoff(out, a) ==
    IF out.kind = "http" /\ IsRateLimit(out.status) THEN 2 ^ a ELSE FIXED_BACKOFF

\* The except clauses of the loop body: HTTPError, RequestException, Exception.
Caught(exc) == exc \in {"HTTPError", "RequestException", "Exception"}

\* The return without its isinstance test: return data.
ReturnDataAsIs(data) == data

\* return data if isinstance(data, dict) else {}
DictOrEmpty(data) == IF data.t = "dict" THEN data ELSE EmptyDict

\* The frame of a fresh call of multi_search_request(p).
MsrEnter(p) ==
    /\ msrPc' = "loop"
    /\ attempt' = 0
    /\ payload' = p
    /\ lastOutcome' = NoOutcome
    /\ msrRet' = EmptyDict
    /\ sleeps' = <<>>
    /\ nRequests' = 0
    /\ termLogs' = 0

\* The frame of multi_search_request when no call of it is in progress.
MsrIdle ==
    /\ msrPc' = "idle"
    /\ attempt' = 0
    /\ payload' = NoPayload
    /\ lastOutcome' = NoOutcome
    /\ msrRet' = EmptyDict
    /\ sleeps' = <<>>
    /\ nRequests' = 0
    /\ termLogs' = 0

\* An attempt that raised exc: the handler sleeps and the loop goes on.
MsrFail(exc, out) ==
    IF Caught(exc)
    THEN /\ sleeps' = Append(sleeps, Backoff(out, attempt))
         /\ attempt' = attempt + 1
         /\ msrPc' = "loop"
         /\ msrRet' = msrRet
    ELSE /\ msrPc' = "raised"
         /\ UNCHANGED <<sleeps, attempt, msrRet>>

\* The inner try as the retrying variant: a body that is no mapping counts as
\* a failed attempt and goes through the fixed backoff.
MsrParseRetrying(out) ==
    IF out.body.parses /\ out.body.data.t = "dict"
    THEN /\ msrRet' = out.body.data
         /\ msrPc' = "returned"
         /\ UNCHANGED <<sleeps, attempt>>
    ELSE MsrFail("Exception", out)

\* The inner try of a response with an accepted status: response.json() and
\* the isinstance test.  A body that does not parse is logged and {} returned.
MsrParse(out) ==
    /\ msrRet' = IF out.body.parses THEN DictOrEmpty(out.body.data) ELSE EmptyDict
    /\ msrPc' = "returned"
    /\ UNCHANGED <<sleeps, attempt>>

\* One iteration of the loop: json.dumps, the POST, raise_for_status, json().
MsrAttempt ==
    /\ msrPc = "loop"
    /\ attempt < MAX_ATTEMPTS
    /\ IF ~payload.ser
       THEN \* json.dumps(payload) raises TypeError before any request is made
            /\ lastOutcome' = NoOutcome
            /\ nRequests' = nRequests
            /\ MsrFail("Exception", NoOutcome)
       ELSE \E out \in HttpOutcomes :
            /\ lastOutcome' = out
            /\ nRequests' = nRequests + 1
            /\ IF out.kind = "neterr"
               THEN MsrFail("RequestException", out)
               ELSE IF RaisesForStatus(out.status)
               THEN MsrFail("HTTPError", out)
               ELSE MsrParse(out)
    /\ UNCHANGED <<top, fs, payload, termLogs, fetchVars, callerVars, batchVars>>

\* The loop ran out: the terminal error is logged and {} returned.
MsrExhausted ==
    /\ msrPc = "loop"
    /\ attempt >= MAX_ATTEMPTS
    /\ termLogs' = termLogs + 1
    /\ msrRet' = EmptyDict
    /\ msrPc' = "returned"
    /\ UNCHANGED <<top, fs, attempt, payload, lastOutcome, sleeps, nRequests, fetchVars,
                   callerVars, batchVars>>

(***************************************************************************)
(* JSON text and the cache files.                                          *)
(***************************************************************************)
JNull == [t |-> "null", n |-> 0, s |-> <<>>, a |-> <<>>]
JNum(n) == [t |-> "num", n |-> n, s |-> <<>>, a |-> <<>>]
JStr(s) == [t |-> "str", n |-> 0, s |-> s, a |-> <<>>]
JArr(a) == [t |-> "arr", n |-> 0, s |-> <<>>, a |-> a]
\* An object is its members in the order of the text.
JObj(members) == [t |-> "obj", n |-> 0, s |-> <<>>, a |-> members]
Member(k, v) == [k |-> k, v |-> v]

\* The text of a tag.
TAG == <<116, 97, 103>>

\* json.dumps writing numbers as text.
ToJsonTextual(v) ==
    CASE v.t = "none" -> JNull
      [] v.t = "str" -> JStr(v.s)
      [] v.t = "int" -> JStr(PyStr(v))
      [] v.t = "list" -> JArr([i \in 1..v.n |-> JStr(TAG)])

\* json.dumps of a value.
ToJson(v) ==
    CASE v.t = "none" -> JNull
      [] v.t = "str" -> JStr(v.s)
      [] v.t = "int" -> JNum(v.n)
      [] v.t = "list" -> JArr([i \in 1..v.n |-> JStr(TAG)])

\* json.loads of a value.
FromJson(j) ==
    CASE j.t = "null" -> PyNone
      [] j.t = "str" -> PyString(j.s)
      [] j.t = "num" -> PyInt(j.n)
      [] j.t = "arr" -> PyList(Len(j.a))

\* A cache file: not there, there but unreadable, text that is no JSON, JSON.
FileMissing == [st |-> "missing", val |-> JNull]
FileUnreadable == [st |-> "unreadable", val |-> JNull]
FileGarbage == [st |-> "garbage", val |-> JNull]
JsonFile(v) == [st |-> "json", val |-> v]

\* The record built for an accepted hit, with the keys the crawl relies on.
Bot(cid, tags, pg, rank) ==
    [character_id |-> PyString(cid), tags |-> tags, page |-> PyInt(pg), rank |-> PyInt(rank)]

\* The keys of a record in the order the dict literal gives them.
BotKeys == <<"character_id", "tags", "page", "rank">>

\* json.dumps(ALL_RESULTS, indent=2)
Dumps(all) ==
    JArr([i \in 1..Len(all) |->
            JObj([x \in 1..Len(BotKeys) |-> Member(BotKeys[x], ToJson(all[i][BotKeys[x]]))])])

Max(S) == CHOOSE x \in S : \A y \in S : y <= x

\* json.loads of an object: a dict, the last of repeated keys winning.
LoadsObj(members) ==
    [k \in {members[i].k : i \in DOMAIN members} |->
        FromJson(members[Max({i \in DOMAIN members : members[i].k = k})].v)]

\* "character_id"
CHARACTER_ID == <<99, 104, 97, 114, 97, 99, 116, 101, 114, 95, 105, 100>>

\* sub in s, for strings
Contains(s, sub) ==
    \E i \in 0..(Len(s) - Len(sub)) : SubSeq(s, i + 1, i + Len(sub)) = sub

\* "character_id" in b, for an element b of the parsed array: a key test on
\* a dict, a substring test on a string, a membership test on a list, a
\* TypeError on a number or null.
HasCharacterId(b) ==
    CASE b.t = "obj" -> IF \E i \in DOMAIN b.a : b.a[i].k = "character_id" THEN "yes" ELSE "no"
      [] b.t = "str" -> IF Contains(b.s, CHARACTER_ID) THEN "yes" ELSE "no"
      [] b.t = "arr" ->
            IF \E i \in DOMAIN b.a : b.a[i].t = "str" /\ b.a[i].s = CHARACTER_ID
            THEN "yes" ELSE "no"
      [] OTHER -> "raise"

\* all("character_id" in b for b in cached): stops at the first element that
\* fails the test or raises.
RECURSIVE AllHaveCharacterId(_, _)
AllHaveCharacterId(a, i) ==
    IF i > Len(a) THEN "yes"
    ELSE LET r == HasCharacterId(a[i])
         IN  IF r = "yes" THEN AllHaveCharacterId(a, i + 1) ELSE r

\* The mapping that keeps the first record of every ID.
RECURSIVE KeyedRangeFirst(_, _, _)
KeyedRangeFirst(records, lo, hi) ==
    IF lo = hi THEN PyStr(records[lo].character_id) :> records[lo]
    ELSE LET mid == (lo + hi) \div 2
         IN  KeyedRangeFirst(records, lo, mid) @@ KeyedRangeFirst(records, mid + 1, hi)

KeyedByFirst(records) ==
    IF records = <<>> THEN <<>> ELSE KeyedRangeFirst(records, 1, Len(records))

\* The dict comprehension over records lo..hi: entries are written in order,
\* so the entry of a later record replaces that of an earlier one with the
\* same key (the range is split in halves to keep the evaluation shallow).
RECURSIVE KeyedRange(_, _, _)
KeyedRange(records, lo, hi) ==
    IF lo = hi THEN PyStr(records[lo].character_id) :> records[lo]
    ELSE LET mid == (lo + hi) \div 2
         IN  KeyedRange(records, mid + 1, hi) @@ KeyedRange(records, lo, mid)

\* {str(b["character_id"]): b for b in records}
KeyedBy(records) == IF records = <<>> THEN <<>> ELSE KeyedRange(records, 1, Len(records))

\* The try block of the cache read: read_text, json.loads, the validity test
\* and the dict comprehension.  "hit" with the mapping, "invalid" when the
\* test is false, "raise" when any of them raises.
LoadCache(file) ==
    CASE file.st = "unreadable" -> [res |-> "raise", map |-> <<>>]
      [] file.st = "garbage" -> [res |-> "raise", map |-> <<>>]
      [] file.st = "json" ->
            IF file.val.t # "arr" THEN [res |-> "invalid", map |-> <<>>]
            ELSE LET a == file.val.a
                     ok == AllHaveCharacterId(a, 1)
                 IN  IF ok = "raise" THEN [res |-> "raise", map |-> <<>>]
                     ELSE IF ok = "no" THEN [res |-> "invalid", map |-> <<>>]
                     ELSE IF \E i \in DOMAIN a : a[i].t # "obj"
                     THEN \* b["character_id"] on a string or a list: TypeError
                          [res |-> "raise", map |-> <<>>]
                     ELSE [res |-> "hit",
                           map |-> KeyedBy([i \in DOMAIN a |-> LoadsObj(a[i].a)])]

\* The cache read without its except clause.
CacheReadNotCaught == FALSE

\* except Exception as e: around the cache read.
CacheReadCaught == TRUE

\* The CACHE READ section: "hit" returns the mapping, "live" goes on to the
\* crawl (failLogs counts the "Failed reading cached" record), "raise"
\* leaves the function with the exception.
CacheRead(use_cache, file) ==
    IF use_cache /\ file.st # "missing"
    THEN LET r == LoadCache(file)
         IN  CASE r.res = "hit" -> [res |-> "hit", map |-> r.map, failLogs |-> 0]
               [] r.res = "invalid" -> [res |-> "live", map |-> <<>>, failLogs |-> 0]
               [] r.res = "raise" ->
                    IF CacheReadCaught
                    THEN [res |-> "live", map |-> <<>>, failLogs |-> 1]
                    ELSE [res |-> "raise", map |-> <<>>, failLogs |-> 0]
    ELSE [res |-> "live", map |-> <<>>, failLogs |-> 0]

(***************************************************************************)
(* The hits of a response.                                                 *)
(***************************************************************************)
\* A well-formed ID, different for every page and position: a letter for the
\* page and two digits for the position.
CleanId(pg, j) == <<64 + pg, 48 + (j \div 10), 48 + (j % 10)>>

\* A hit that is a dict holding a document with this character_id.
DocHit(cid) == [isdict |-> TRUE, hasdoc |-> TRUE, hascid |-> TRUE, cid |-> cid]

\* Hit j of the page pg of a response filled in the way pat:
\*   clean    every hit has a well-formed ID of its own;
\*   dirty    by position: no character_id key, "", blanks only, an ID padded
\*            with blanks, one ID repeated on every page, an integer ID, no
\*            document, a well-formed ID;
\*   nullhit  the second hit is null, the others are well formed;
\*   noid     no hit has a character_id.
Hit(pat, pg, j) ==
    CASE pat = "clean" -> DocHit(PyString(CleanId(pg, j)))
      [] pat = "noid" -> [isdict |-> TRUE, hasdoc |-> TRUE, hascid |-> FALSE, cid |-> PyNone]
      [] pat = "nullhit" ->
            IF j = 2 THEN [isdict |-> FALSE, hasdoc |-> FALSE, hascid |-> FALSE, cid |-> PyNone]
            ELSE DocHit(PyString(CleanId(pg, j)))
      [] pat = "dirty" ->
            CASE j % 8 = 1 -> [isdict |-> TRUE, hasdoc |-> TRUE, hascid |-> FALSE, cid |-> PyNone]
              [] j % 8 = 2 -> DocHit(PyString(<<>>))
              [] j % 8 = 3 -> DocHit(PyString(<<32, 9>>))
              [] j % 8 = 4 -> DocHit(PyString(<<32>> \o CleanId(pg, j) \o <<10>>))
              [] j % 8 = 5 -> DocHit(PyString(<<100, 117, 112>>))
              [] j % 8 = 6 -> DocHit(PyInt(j - 6))
              [] j % 8 = 7 -> [isdict |-> TRUE, hasdoc |-> FALSE, hascid |-> FALSE, cid |-> PyNone]
              [] OTHER -> DocHit(PyString(CleanId(pg, j)))

\* doc.get("tags", []) of hit j: a list of up to two tags, or null on some
\* hits of a dirty page.
HitTags(pat, pg, j) == IF pat = "dirty" /\ j % 8 = 0 THEN PyNone ELSE PyList(j % 3)

\* doc.get("tags", []) or []
TagsOf(pat, pg, j) == Or(HitTags(pat, pg, j), PyList(0))

\* results_page[0].get(...) raises when the first result set is null.
HitsRaise(result) == result.shape = "nullset"

\* len(hits) for hits = results_page[0].get("hits", []) if results_page else []
HitCount(result) == IF result.shape = "hits" THEN result.n ELSE 0

\* doc = obj.get("document") or {}; doc.get("character_id")
DocCharacterId(h) == IF h.hasdoc /\ h.hascid THEN h.cid ELSE PyNone

\* cid = str(doc.get("character_id") or "").strip()
CidOf(h) == Strip(PyStr(Or(DocCharacterId(h), PyString(<<>>))))

\* if not cid: continue
Skipped(cid) == cid = <<>>

\* rank = len(ALL_RESULTS)
RankFromZero(len) == len

\* rank = len(ALL_RESULTS) + 1, for ALL_RESULTS holding len records.
NextRank(len) == len + 1

Min(S) == CHOOSE x \in S : \A y \in S : x <= y

\* The hits of the page the for loop gets through: all of them, or those
\* before the first hit that is no dict, where obj.get raises.
HitsProcessed(result, pg) ==
    LET bad == {j \in 1..HitCount(result) : ~Hit(result.pat, pg, j).isdict}
    IN  IF bad = {} THEN HitCount(result) ELSE Min(bad) - 1

\* The positions of the hits the loop appends, in response order.
AcceptedHits(result, pg) ==
    SelectSeq([j \in 1..HitsProcessed(result, pg) |-> j],
              LAMBDA j : ~Skipped(CidOf(Hit(result.pat, pg, j))))

\* The for loop over the hits of one page, started with ALL_RESULTS = all:
\* the k-th hit appended finds k - 1 records of this page before it.
\* raised: a hit that is no dict ended the loop with an exception.
ProcessHits(result, pg, all) ==
    LET pos == AcceptedHits(result, pg)
    IN  [all |-> all \o
                 [k \in 1..Len(pos) |->
                    Bot(CidOf(Hit(result.pat, pg, pos[k])), TagsOf(result.pat, pg, pos[k]),
                        pg, NextRank(Len(all) + k - 1))],
         raised |-> HitsProcessed(result, pg) < HitCount(result)]

\* A page counter that stays where it is.
SamePage(pg) == pg

\* page += 1
NextPage(pg) == pg + 1

\* if len(hits) <= per_page: break
LastPageOrFull(n) == n <= per_page

\* if len(hits) < per_page: break
LastPage(n) == n < per_page

(***************************************************************************)
(* fetch_typesense_top_bots                                                *)
(***************************************************************************)
NoArgs == [max_pages |-> 0, use_cache |-> FALSE, filter |-> FALSE]

\* opened: the cache files the call read, tested for existence or wrote.
NoLog == [src |-> "none", cacheFail |-> 0, write |-> "none", writeFail |-> 0, opened |-> {}]

\* The two cache files of core/config.py, named by the mode they serve.
FILTERED_CACHE == TRUE
UNFILTERED_CACHE == FALSE

\* One cache file serving both modes.
CacheFileShared(filter) == FILTERED_CACHE

\* cache_file = FILTERED_CACHE if filter_female_nsfw else UNFILTERED_CACHE
CacheFile(filter) == IF filter THEN FILTERED_CACHE ELSE UNFILTERED_CACHE

\* Entry and the CACHE READ section: the snapshot is returned, or the crawl
\* starts with no results at page 1.
FetchEnter(max_pages, use_cache, filter) ==
    LET r == CacheRead(use_cache, fs[CacheFile(filter)])
        opened == IF use_cache THEN {CacheFile(filter)} ELSE {}
    IN  /\ fArgs' = [max_pages |-> max_pages, use_cache |-> use_cache, filter |-> filter]
        /\ fsBefore' = fs
        /\ ALL_RESULTS' = <<>>
        /\ reqLog' = <<>>
        /\ CASE r.res = "hit" ->
                /\ fPc' = "returned"
                /\ fetchRet' = r.map
                /\ page' = 0
                /\ fLog' = [NoLog EXCEPT !.src = "cache", !.opened = opened]
             [] r.res = "live" ->
                /\ fPc' = "loop"
                /\ fetchRet' = <<>>
                /\ page' = 1
                /\ fLog' = [NoLog EXCEPT !.src = "live", !.cacheFail = r.failLogs,
                                         !.opened = opened]
             [] r.res = "raise" ->
                /\ fPc' = "raised"
                /\ fetchRet' = <<>>
                /\ page' = 0
                /\ fLog' = [NoLog EXCEPT !.opened = opened]

\* The payload of the request for one page.
PagePayload(filter, pg) == [ser |-> TRUE, filter |-> filter, page |-> pg, per_page |-> per_page]

\* while page <= max_pages: the next page is requested, or the loop ends.
FetchLoopHead ==
    /\ fPc = "loop"
    /\ IF page <= fArgs.max_pages
       THEN /\ MsrEnter(PagePayload(fArgs.filter, page))
            /\ reqLog' = Append(reqLog, [page |-> page, per_page |-> per_page,
                                         filter |-> fArgs.filter, result |-> EmptyDict])
            /\ fPc' = "await"
       ELSE /\ fPc' = "write"
            /\ UNCHANGED <<msrVars, reqLog>>
    /\ UNCHANGED <<top, fs, fArgs, ALL_RESULTS, page, fetchRet, fLog, fsBefore,
                   callerVars, batchVars>>

\* The body of the loop once multi_search_request is back: the hits are
\* taken from the result and appended, and the loop goes on or ends.
FetchPage ==
    /\ fPc = "await"
    /\ msrPc \in {"returned", "raised"}
    /\ MsrIdle
    /\ IF msrPc = "raised"
       THEN /\ fPc' = "raised"
            /\ UNCHANGED <<ALL_RESULTS, page, reqLog>>
       ELSE LET n == HitCount(msrRet)
                acc == ProcessHits(msrRet, page, ALL_RESULTS)
            IN  /\ reqLog' = [reqLog EXCEPT ![Len(reqLog)].result = msrRet]
                /\ ALL_RESULTS' = acc.all
                /\ IF HitsRaise(msrRet) THEN fPc' = "raised" /\ page' = page
                   ELSE IF n = 0 THEN fPc' = "write" /\ page' = page
                   ELSE IF acc.raised THEN fPc' = "raised" /\ page' = page
                   ELSE IF LastPage(n) THEN fPc' = "write" /\ page' = page
                   ELSE fPc' = "loop" /\ page' = NextPage(page)
    /\ UNCHANGED <<top, fs, fArgs, fetchRet, fLog, fsBefore, callerVars, batchVars>>

\* What mkdir and write_text can do: write the text, fail before the file is
\* touched, fail after it was truncated.
WriteOutcomes == {"ok", "untouched", "truncated"}

\* A write that appends to the array the file holds.
FileAfterWriteMerging(old, all, w) ==
    CASE w = "ok" ->
            IF old.st = "json" /\ old.val.t = "arr"
            THEN JsonFile(JArr(old.val.a \o Dumps(all).a))
            ELSE JsonFile(Dumps(all))
      [] w = "untouched" -> old
      [] w = "truncated" -> FileGarbage

\* The cache file after the write of ALL_RESULTS ended the way w.
FileAfterWrite(old, all, w) ==
    CASE w = "ok" -> JsonFile(Dumps(all))
      [] w = "untouched" -> old
      [] w = "truncated" -> FileGarbage

\* The cache write without its except clause.
CacheWriteNotCaught == FALSE

\* except Exception as e: around the cache write.
CacheWriteCaught == TRUE

\* A write attempted whatever the crawl accumulated.
ShouldWriteAlways(all) == TRUE

\* if ALL_RESULTS:
ShouldWrite(all) == all # <<>>

\* The CACHE WRITE section and the return.
FetchWrite ==
    /\ fPc = "write"
    /\ IF ShouldWrite(ALL_RESULTS)
       THEN \E w \in WriteOutcomes :
            /\ fs' = [fs EXCEPT ![CacheFile(fArgs.filter)] = FileAfterWrite(@, ALL_RESULTS, w)]
            /\ IF w = "ok"
               THEN /\ fLog' = [fLog EXCEPT !.write = "ok", !.opened = @ \cup {CacheFile(fArgs.filter)}]
                    /\ fPc' = "returned"
                    /\ fetchRet' = KeyedBy(ALL_RESULTS)
               ELSE IF CacheWriteCaught
               THEN /\ fLog' = [fLog EXCEPT !.write = "failed", !.writeFail = 1,
                                            !.opened = @ \cup {CacheFile(fArgs.filter)}]
                    /\ fPc' = "returned"
                    /\ fetchRet' = KeyedBy(ALL_RESULTS)
               ELSE /\ fLog' = [fLog EXCEPT !.write = "failed",
                                            !.opened = @ \cup {CacheFile(fArgs.filter)}]
                    /\ fPc' = "raised"
                    /\ fetchRet' = fetchRet
       ELSE /\ fs' = fs
            /\ fLog' = fLog
            /\ fPc' = "returned"
            /\ fetchRet' = KeyedBy(ALL_RESULTS)
    /\ UNCHANGED <<top, msrVars, fArgs, ALL_RESULTS, page, reqLog, fsBefore,
                   callerVars, batchVars>>

(***************************************************************************)
(* The caller.                                                             *)
(***************************************************************************)
CallMsr ==
    /\ top = "idle"
    /\ \E p \in RawPayloads : MsrEnter(p)
    /\ top' = "msr"
    /\ UNCHANGED <<fs, fetchVars, callerVars, batchVars>>

CallFetch ==
    /\ top = "idle"
    /\ \E mp \in 0..MaxPagesBound, uc \in BOOLEAN, flt \in BOOLEAN : FetchEnter(mp, uc, flt)
    /\ top' = "fetch"
    /\ UNCHANGED <<fs, msrVars, callerVars, batchVars>>

\* A well-formed record of a snapshot file.
JRec(cid, pg, rank) ==
    JObj(<<Member("character_id", cid), Member("page", JNum(pg)), Member("rank", JNum(rank))>>)

\* What a cache file can hold when the program starts: no file, a file that
\* cannot be read, text that is no JSON, JSON that is no array, an empty
\* array, a snapshot of two records, a snapshot repeating an ID, a record
\* with a null ID, a record with a numeric ID, an element without
\* character_id, a number among the elements, a string element.
CacheInputs ==
    << FileMissing, FileUnreadable, FileGarbage,
       JsonFile(JObj(<<>>)),
       JsonFile(JArr(<<>>)),
       JsonFile(JArr(<<JRec(JStr(<<90, 49>>), 1, 1), JRec(JStr(<<90, 50>>), 1, 2)>>)),
       JsonFile(JArr(<<JRec(JStr(<<90, 49>>), 1, 1), JRec(JStr(<<90, 49>>), 1, 2)>>)),
       JsonFile(JArr(<<JRec(JNull, 1, 1)>>)),
       JsonFile(JArr(<<JRec(JNum(7), 1, 1)>>)),
       JsonFile(JArr(<<JRec(JStr(<<90, 49>>), 1, 1), JObj(<<Member("rank", JNum(2))>>)>>)),
       JsonFile(JArr(<<JRec(JStr(<<90, 49>>), 1, 1), JNum(5)>>)),
       JsonFile(JArr(<<JStr(CHARACTER_ID)>>)) >>

\* The file systems the program starts in: each input as the filtered file,
\* with the next input as the unfiltered file.
InitialFiles ==
    {[m \in BOOLEAN |-> IF m THEN CacheInputs[i] ELSE CacheInputs[(i % Len(CacheInputs)) + 1]] :
        i \in DOMAIN CacheInputs}

Init ==
    /\ top = "idle"
    /\ fs \in InitialFiles
    /\ msrPc = "idle"
    /\ attempt = 0
    /\ payload = NoPayload
    /\ lastOutcome = NoOutcome
    /\ msrRet = EmptyDict
    /\ sleeps = <<>>
    /\ nRequests = 0
    /\ termLogs = 0
    /\ fPc = "idle"
    /\ fArgs = NoArgs
    /\ ALL_RESULTS = <<>>
    /\ page = 0
    /\ fetchRet = <<>>
    /\ fLog = NoLog
    /\ reqLog = <<>>
    /\ fsBefore = fs
    /\ history = <<>>
    /\ tmPc = "idle"
    /\ tmRet = <<>>
    /\ bPc = "idle"
    /\ bArgs = [bot_ids |-> <<>>, collections |-> <<>>]
    /\ bIds = <<>>
    /\ bOut = <<>>
    /\ bColl = 0
    /\ bRem = <<>>
    /\ bI = 0
    /\ bLog = <<>>

Next ==
    \/ CallMsr
    \/ CallFetch
    \/ MsrAttempt
    \/ MsrExhausted
    \/ FetchLoopHead
    \/ FetchPage
    \/ FetchWrite

Spec == Init /\ [][Next]_vars

(***************************************************************************)
(* A caller that invokes fetch_typesense_top_bots several times.           *)
(***************************************************************************)
\* What is kept of a fetch once it ended.
Ended == [args |-> fArgs, pc |-> fPc, ret |-> fetchRet, src |-> fLog.src, write |-> fLog.write]

CallFetchSeq ==
    /\ top = "idle"
    /\ \E mp \in 0..SeqPagesBound, uc \in BOOLEAN, flt \in BOOLEAN : FetchEnter(mp, uc, flt)
    /\ top' = "fetch"
    /\ UNCHANGED <<fs, msrVars, callerVars, batchVars>>

\* The fetch ended (it returned, or raised and the caller caught it) and the
\* caller invokes the function again.
FetchAgain ==
    /\ top = "fetch"
    /\ fPc \in {"returned", "raised"}
    /\ Len(history) + 1 < MaxCalls
    /\ history' = Append(history, Ended)
    /\ \E mp \in 0..SeqPagesBound, uc \in BOOLEAN, flt \in BOOLEAN : FetchEnter(mp, uc, flt)
    /\ UNCHANGED <<top, fs, msrVars, tmPc, tmRet, batchVars>>

NextSeq ==
    \/ CallFetchSeq
    \/ FetchAgain
    \/ MsrAttempt
    \/ MsrExhausted
    \/ FetchLoopHead
    \/ FetchPage
    \/ FetchWrite

SpecSeq == Init /\ [][NextSeq]_vars

(***************************************************************************)
(* get_typesense_tag_map                                                   *)
(***************************************************************************)
\* bot.get("tags") or []
TagsOfBot(bot) == Or(IF "tags" \in DOMAIN bot THEN bot.tags ELSE PyNone, PyList(0))

\* The loop over ts_map.items(): the bots with tags, by ID.
BuildTagMap(ts_map) ==
    [cid \in {k \in DOMAIN ts_map : Truthy(TagsOfBot(ts_map[k]))} |-> TagsOfBot(ts_map[cid])]

\* An emptiness test that never holds.
NeverEmpty(ts_map) == FALSE

\* not ts_map
IsEmptyMap(ts_map) == DOMAIN ts_map = {}

\* ts_map = fetch_typesense_top_bots(max_pages=10, use_cache=True,
\*                                   filter_female_nsfw=False)
CallTagMap ==
    /\ top = "idle"
    /\ top' = "tagmap"
    /\ tmPc' = "first"
    /\ FetchEnter(TAGMAP_MAX_PAGES, TRUE, FALSE)
    /\ UNCHANGED <<fs, msrVars, history, tmRet, batchVars>>

\* if not ts_map: the live fetch.
TagMapRefetch ==
    /\ top = "tagmap"
    /\ tmPc = "first"
    /\ fPc = "returned"
    /\ IsEmptyMap(fetchRet)
    /\ history' = Append(history, Ended)
    /\ FetchEnter(TAGMAP_MAX_PAGES, FALSE, FALSE)
    /\ tmPc' = "second"
    /\ UNCHANGED <<top, fs, msrVars, tmRet, batchVars>>

\* The tag map is built from ts_map and returned.
TagMapBuild ==
    /\ top = "tagmap"
    /\ tmPc \in {"first", "second"}
    /\ fPc = "returned"
    /\ tmPc = "first" => ~IsEmptyMap(fetchRet)
    /\ tmRet' = BuildTagMap(fetchRet)
    /\ tmPc' = "returned"
    /\ UNCHANGED <<top, fs, msrVars, fetchVars, history, batchVars>>

\* An exception of the fetch leaves get_typesense_tag_map as well.
TagMapRaise ==
    /\ top = "tagmap"
    /\ tmPc \in {"first", "second"}
    /\ fPc = "raised"
    /\ tmPc' = "raised"
    /\ UNCHANGED <<top, fs, msrVars, fetchVars, history, tmRet, batchVars>>

\* An attempt against a remote whose pages hold no malformed hits.
MsrAttemptTidy == MsrAttempt /\ lastOutcome'.body.data.pat # "dirty"

NextTagMap ==
    \/ CallTagMap
    \/ TagMapRefetch
    \/ TagMapBuild
    \/ TagMapRaise
    \/ MsrAttemptTidy
    \/ MsrExhausted
    \/ FetchLoopHead
    \/ FetchPage
    \/ FetchWrite

SpecTagMap == Init /\ [][NextTagMap]_vars

(***************************************************************************)
(* The batch lookups by ID: fetch_typesense_tags_for_bot_ids,              *)
(* fetch_typesense_ratings_for_bot_ids (top = "tags", "ratings") and       *)
(* fetch_typesense_created_at_for_bot_ids (top = "created").               *)
(***************************************************************************)
\* A float of this value.
PyFloat(n) == [t |-> "float", s |-> <<>>, n |-> n]

\* The number a text of digits stands for.
RECURSIVE Number(_)
Number(s) == IF s = <<>> THEN 0 ELSE 10 * Number(SubSeq(s, 1, Len(s) - 1)) + (s[Len(s)] - 48)

\* float(v): a float for a number or a text of digits, ValueError or
\* TypeError for anything else.
ToFloat(v) ==
    CASE v.t \in {"int", "float"} -> [ok |-> TRUE, val |-> PyFloat(v.n)]
      [] v.t = "str" /\ v.s # <<>> /\ \A i \in DOMAIN v.s : v.s[i] \in 48..57 ->
            [ok |-> TRUE, val |-> PyFloat(Number(v.s))]
      [] OTHER -> [ok |-> FALSE, val |-> PyNone]

\* The ID number k a caller asks for.
BatchId(k) == <<73, 48 + (k \div 100), 48 + ((k \div 10) % 10), 48 + (k % 10)>>

\* n different IDs.
DistinctIds(n) == [k \in 1..n |-> PyString(BatchId(k))]

\* 84 entries, three of them falsy and one an integer, 81 once sanitized.
MixedIds ==
    <<PyNone>> \o DistinctIds(40) \o <<PyString(<<>>), PyInt(7)>>
    \o [k \in 1..40 |-> PyString(BatchId(40 + k))] \o <<PyInt(0)>>

\* The bot_ids arguments: no entry, falsy entries only, one ID, a full chunk,
\* a chunk and one ID, an ID that comes back in the second chunk, a list with
\* falsy entries and an integer, two chunks and one ID.
BotIdInputs ==
    { <<>>,
      <<PyString(<<>>), PyNone, PyInt(0), PyString(<<>>)>>,
      DistinctIds(1),
      DistinctIds(CHUNK),
      DistinctIds(CHUNK + 1),
      DistinctIds(CHUNK) \o <<PyString(BatchId(1))>>,
      MixedIds,
      DistinctIds(2 * CHUNK + 1) }

\* The collections arguments: the default and a single collection.
CollectionInputs ==
    {<<"public_characters", "public_characters_alias">>, <<"public_characters_alias">>}

\* A list that keeps the falsy entries.
SanitizeKeepingAll(bot_ids) == [i \in DOMAIN bot_ids |-> PyStr(bot_ids[i])]

\* bot_ids = [str(x) for x in bot_ids if x]
Sanitize(bot_ids) ==
    LET kept == SelectSeq(bot_ids, Truthy)
    IN  [i \in DOMAIN kept |-> PyStr(kept[i])]

\* A window that takes one entry too many.
ChunkOfOverlapping(rem, i) == SubSeq(rem, i + 1, Min({i + CHUNK + 1, Len(rem)}))

\* chunk = bot_ids[i:i + CHUNK]
ChunkOf(rem, i) == SubSeq(rem, i + 1, Min({i + CHUNK, Len(rem)}))

\* A remaining list that drops nothing.
RemainingAll(ids, out) == ids

\* remaining = [bid for bid in bot_ids if bid not in out]
Remaining(ids, out) == SelectSeq(ids, LAMBDA bid : bid \notin DOMAIN out)

\* The payload of the request for one chunk.
BatchPayload(coll, chunk) ==
    [ser |-> TRUE, filter |-> FALSE, page |-> 1, per_page |-> Len(chunk),
     coll |-> coll, ids |-> chunk]

\* len(hits): the remote returns at most per_page = len(chunk) hits.
BatchHitCount(result, chunk) == Min({HitCount(result), Len(chunk)})

\* The field the function reads from hit j of the response to request r:
\* tags, rating_score, created_at.
FieldValue(fn, pat, r, j) ==
    CASE pat = "dirty" /\ j % 8 = 0 -> PyNone
      [] fn = "tags" -> PyList((j + r) % 3)
      [] fn = "ratings" ->
            IF pat = "dirty" /\ j % 8 = 4 THEN PyString(<<120>>)
            ELSE IF j % 8 = 5 THEN PyString(Digits(j + r))
            ELSE PyInt(j + r)
      [] OTHER -> PyInt(1000 * r + j)

\* Hit j of the response to request r for chunk, filled in the way pat (see
\* Hit): the document of a clean hit is that of the j-th ID asked for; a
\* dirty page also holds an ID nobody asked for.
BatchHit(fn, pat, chunk, r, j) ==
    LET val == FieldValue(fn, pat, r, j)
        doc(cid) == [isnull |-> FALSE, hasdoc |-> TRUE, hascid |-> TRUE, cid |-> cid, val |-> val]
        none == [isnull |-> FALSE, hasdoc |-> TRUE, hascid |-> FALSE, cid |-> PyNone, val |-> val]
    IN  CASE pat = "clean" -> doc(PyString(chunk[j]))
          [] pat = "noid" -> none
          [] pat = "nullhit" ->
                IF j = 2
                THEN [isnull |-> TRUE, hasdoc |-> FALSE, hascid |-> FALSE, cid |-> PyNone,
                      val |-> PyNone]
                ELSE doc(PyString(chunk[j]))
          [] pat = "dirty" ->
                CASE j % 8 = 1 -> none
                  [] j % 8 = 2 -> doc(PyString(<<>>))
                  [] j % 8 = 3 -> doc(PyString(<<32, 9>>))
                  [] j % 8 = 4 -> doc(PyString(<<32>> \o chunk[j] \o <<10>>))
                  [] j % 8 = 5 -> doc(PyString(<<100, 117, 112>>))
                  [] j % 8 = 6 -> doc(PyInt(j - 6))
                  [] j % 8 = 7 -> [isnull |-> FALSE, hasdoc |-> FALSE, hascid |-> FALSE,
                                   cid |-> PyNone, val |-> PyNone]
                  [] OTHER -> doc(PyString(chunk[j]))

\* doc = (h or {}).get("document") or {}; doc.get("character_id")
BatchDocCid(h) == IF ~h.isnull /\ h.hasdoc /\ h.hascid THEN h.cid ELSE PyNone

\* cid = str(doc.get("character_id") or ""), stripped by the created_at lookup
BatchCid(fn, h) ==
    LET raw == PyStr(Or(BatchDocCid(h), PyString(<<>>)))
    IN  IF fn = "created" THEN Strip(raw) ELSE raw

\* The value filed under cid: doc.get("tags") or []; float(rs), or None when
\* rs is None or float raises; created_at.
StoredValue(fn, h) ==
    CASE fn = "tags" -> Or(h.val, PyList(0))
      [] fn = "ratings" -> IF h.val = PyNone THEN PyNone ELSE ToFloat(h.val).val
      [] OTHER -> h.val

\* The hit is filed: if cid, and for created_at if ca.
Stored(fn, h) == BatchCid(fn, h) # <<>> /\ (fn = "created" => Truthy(h.val))

\* The assignments the for loop over the hits makes, in order.
HitPairs(fn, result, chunk, r) ==
    LET pos == SelectSeq([j \in 1..BatchHitCount(result, chunk) |-> j],
                         LAMBDA j : Stored(fn, BatchHit(fn, result.pat, chunk, r, j)))
    IN  [x \in 1..Len(pos) |->
            [k |-> BatchCid(fn, BatchHit(fn, result.pat, chunk, r, pos[x])),
             v |-> StoredValue(fn, BatchHit(fn, result.pat, chunk, r, pos[x]))]]

\* The dict the assignments lo..hi leave: a later one replaces an earlier one
\* with the same key.
RECURSIVE MapOfPairs(_, _, _)
MapOfPairs(pairs, lo, hi) ==
    IF lo > hi THEN <<>>
    ELSE IF lo = hi THEN pairs[lo].k :> pairs[lo].v
    ELSE LET mid == (lo + hi) \div 2
         IN  MapOfPairs(pairs, mid + 1, hi) @@ MapOfPairs(pairs, lo, mid)

\* The mapping once the hits of a response are gone through.
AfterHits(fn, out, result, chunk, r) ==
    LET pairs == HitPairs(fn, result, chunk, r)
    IN  IF pairs = <<>> THEN out ELSE MapOfPairs(pairs, 1, Len(pairs)) @@ out

\* Entry of a lookup: the IDs are sanitized; with none left {} is returned.
BatchEnter(fn, bot_ids, colls) ==
    LET ids == Sanitize(bot_ids)
    IN  /\ bArgs' = [bot_ids |-> bot_ids, collections |-> colls]
        /\ bIds' = ids
        /\ bOut' = <<>>
        /\ bLog' = <<>>
        /\ bI' = 0
        /\ IF ids = <<>>
           THEN bPc' = "returned" /\ bColl' = 0 /\ bRem' = <<>>
           ELSE IF fn = "created"
           THEN bPc' = "coll" /\ bColl' = 1 /\ bRem' = <<>>
           ELSE bPc' = "chunk" /\ bColl' = 1 /\ bRem' = ids

CallBatch ==
    /\ top = "idle"
    /\ \E fn \in {"tags", "ratings"}, b \in BotIdInputs :
          /\ top' = fn
          /\ BatchEnter(fn, b, <<"public_characters_alias">>)
    /\ UNCHANGED <<fs, msrVars, fetchVars, callerVars>>

CallCreated ==
    /\ top = "idle"
    /\ \E b \in BotIdInputs, c \in CollectionInputs :
          /\ top' = "created"
          /\ BatchEnter("created", b, c)
    /\ UNCHANGED <<fs, msrVars, fetchVars, callerVars>>

\* for coll in collections: the IDs not yet resolved are collected; with none
\* left, or no collection left, the lookup returns.
BatchCollHead ==
    /\ bPc = "coll"
    /\ IF bColl > Len(bArgs.collections)
       THEN bPc' = "returned" /\ bRem' = bRem
       ELSE LET remaining == Remaining(bIds, bOut)
            IN  IF remaining = <<>>
                THEN bPc' = "returned" /\ bRem' = bRem
                ELSE bPc' = "chunk" /\ bRem' = remaining
    /\ bI' = 0
    /\ UNCHANGED <<top, fs, msrVars, fetchVars, callerVars, bArgs, bIds, bOut, bColl, bLog>>

\* for i in range(0, len(...), CHUNK): the next chunk is requested, or the
\* loop ends.
BatchChunkHead ==
    /\ bPc = "chunk"
    /\ IF bI < Len(bRem)
       THEN /\ MsrEnter(BatchPayload(bArgs.collections[bColl], ChunkOf(bRem, bI)))
            /\ bLog' = Append(bLog, [coll |-> bColl, ids |-> ChunkOf(bRem, bI),
                                     result |-> EmptyDict])
            /\ bPc' = "await"
            /\ bColl' = bColl
       ELSE /\ UNCHANGED <<msrVars, bLog>>
            /\ IF top = "created"
               THEN bPc' = "coll" /\ bColl' = bColl + 1
               ELSE bPc' = "returned" /\ bColl' = bColl
    /\ UNCHANGED <<top, fs, fetchVars, callerVars, bArgs, bIds, bOut, bRem, bI>>

\* The body of the chunk loop once multi_search_request is back.
BatchChunk ==
    /\ bPc = "await"
    /\ msrPc \in {"returned", "raised"}
    /\ MsrIdle
    /\ IF msrPc = "raised"
       THEN /\ bPc' = "raised"
            /\ UNCHANGED <<bOut, bI, bLog>>
       ELSE /\ bLog' = [bLog EXCEPT ![Len(bLog)].result = msrRet]
            /\ IF HitsRaise(msrRet)
               THEN bPc' = "raised" /\ bOut' = bOut /\ bI' = bI
               ELSE /\ bOut' = AfterHits(top, bOut, msrRet, ChunkOf(bRem, bI), Len(bLog))
                    /\ bI' = bI + CHUNK
                    /\ bPc' = "chunk"
    /\ UNCHANGED <<top, fs, fetchVars, callerVars, bArgs, bIds, bColl, bRem>>

\* An attempt against a remote that fails, returns {}, a null result set, or
\* full pages: well formed, with malformed hits, with a null hit.
MsrAttemptBatch ==
    /\ MsrAttempt
    /\ lastOutcome'.kind = "http" /\ lastOutcome'.status = 200 /\ lastOutcome'.body.parses =>
          lastOutcome'.body.data \in {EmptyDict, NullSetDict, HitsDict(per_page, "clean"),
                                      HitsDict(per_page, "dirty"), HitsDict(30, "nullhit")}

NextBatch ==
    \/ CallBatch
    \/ CallCreated
    \/ BatchCollHead
    \/ BatchChunkHead
    \/ BatchChunk
    \/ MsrAttemptBatch
    \/ MsrExhausted

\* The lookups do not touch the cache files: they start with none.
InitBatch == Init /\ fs[FILTERED_CACHE] = FileMissing

SpecBatch == InitBatch /\ [][NextBatch]_vars

(***************************************************************************)
(* Properties of multi_search_request.                                     *)
(***************************************************************************)
\* The attempt got a response with an accepted status.
AcceptedStatus(out) == out.kind = "http" /\ ~RaisesForStatus(out.status)

\* The attempt got an accepted status and a body that parses to a mapping.
ParsedMapping(out) == AcceptedStatus(out) /\ out.body.parses /\ out.body.data.t = "dict"

\* The attempt got an accepted status and a body that is no mapping.
Malformed(out) == AcceptedStatus(out) /\ ~(out.body.parses /\ out.body.data.t = "dict")

\* C1: multi_search_request never raises, and what it returns is always a
\* mapping; every outcome but a successfully parsed mapping yields {}.
C1_AlwaysMapping ==
    /\ msrPc # "raised"
    /\ msrPc = "returned" =>
          /\ msrRet.t = "dict"
          /\ ~ParsedMapping(lastOutcome) => msrRet = EmptyDict

\* C1 witness: a body that parsed to something other than a mapping came back
\* as {}.
C1_Witness ==
    /\ msrPc = "returned"
    /\ AcceptedStatus(lastOutcome)
    /\ lastOutcome.body.parses
    /\ lastOutcome.body.data.t = "other"
    /\ msrRet = EmptyDict

\* C2: at most 3 attempts, one after another.  A parsable mapping on attempt k
\* after k-1 failed attempts is returned as it is after exactly k requests
\* and k-1 sleeps; 3 failed attempts return {} after exactly 3 requests (when
\* the payload could be sent at all) with the terminal failure logged once.
C2_ThreeAttempts ==
    /\ attempt <= 3
    /\ nRequests <= 3
    /\ termLogs <= 1
    /\ (msrPc = "returned" /\ ParsedMapping(lastOutcome)) =>
          /\ msrRet = lastOutcome.body.data
          /\ nRequests = attempt + 1
          /\ Len(sleeps) = attempt
          /\ termLogs = 0
    /\ (msrPc = "returned" /\ ~AcceptedStatus(lastOutcome)) =>
          /\ attempt = 3
          /\ msrRet = EmptyDict
          /\ termLogs = 1
          /\ payload.ser => nRequests = 3
    /\ (msrPc = "loop" /\ payload.ser) => nRequests = attempt

\* C2 witness: two failed attempts, then the third returns its mapping.
C2_Witness ==
    /\ msrPc = "returned"
    /\ attempt = 2
    /\ nRequests = 3
    /\ ParsedMapping(lastOutcome)
    /\ msrRet.shape = "hits"

FailedAttempt(out) == out.kind # "http" \/ RaisesForStatus(out.status)

\* C4: the delay slept after failed attempt a (0-based) is 2^a seconds for
\* an HTTP 429 and 2 seconds for every other failure.
C4_BackoffDelays ==
    (attempt > 0 /\ FailedAttempt(lastOutcome)) =>
        /\ Len(sleeps) = attempt
        /\ sleeps[attempt] =
              IF lastOutcome.kind = "http" /\ lastOutcome.status = 429
              THEN 2 ^ (attempt - 1)
              ELSE 2

(***************************************************************************)
(* Properties of fetch_typesense_top_bots.                                 *)
(***************************************************************************)
\* The cache file of the mode of the current call, now and at its entry.
OwnFile == fs[fArgs.filter]
OwnFileBefore == fsBefore[fArgs.filter]

\* The current call is in, or past, a live crawl.
Live == top = "fetch" /\ fLog.src = "live"

\* The live crawl ran to the end of its loop.
CrawlOver == Live /\ fPc \in {"write", "returned"}

\* The numbers of hits the Transport calls of the crawl brought back.
HitsPerPage == [i \in DOMAIN reqLog |-> HitCount(reqLog[i].result)]

\* C5: a live crawl requests pages 1, 2, 3, ... in this order, one Transport
\* call per page with per_page 48; a page is requested only after full pages,
\* never past max_pages, and the crawl stops only at a page with no hits, a
\* page with fewer than 48 hits or at max_pages.  Hit counts 48, 48, 30 of
\* well-formed hits give 3 requests and 126 records; 48, 0 give 48 records,
\* all of page 1.
C5_PagesInOrderUntilStop ==
    Live =>
        /\ \A i \in DOMAIN reqLog :
              /\ reqLog[i].page = i
              /\ reqLog[i].per_page = 48
              /\ reqLog[i].filter = fArgs.filter
        /\ Len(reqLog) <= fArgs.max_pages
        /\ \A i \in 1..(Len(reqLog) - 1) : HitsPerPage[i] >= 48
        /\ (fPc = "await") = (msrPc # "idle")
        /\ fPc = "await" => payload = [ser |-> TRUE, filter |-> fArgs.filter,
                                       page |-> Len(reqLog), per_page |-> 48]
        /\ (CrawlOver /\ Len(reqLog) < fArgs.max_pages) =>
              /\ reqLog # <<>>
              /\ HitsPerPage[Len(reqLog)] < 48
        /\ (CrawlOver /\ \A i \in DOMAIN reqLog : reqLog[i].result.pat \in {"clean", "none"}) =>
              /\ HitsPerPage = <<48, 48, 30>> => Len(ALL_RESULTS) = 126
              /\ HitsPerPage = <<48, 0>> =>
                    /\ Len(ALL_RESULTS) = 48
                    /\ \A i \in DOMAIN ALL_RESULTS : ALL_RESULTS[i].page = PyInt(1)

\* C5 witness: the crawl of 48, 48 and 30 well-formed hits is over.
C5_Witness ==
    /\ CrawlOver
    /\ fPc = "returned"
    /\ fArgs.max_pages > 3 \/ fArgs.max_pages = 3
    /\ HitsPerPage = <<48, 48, 30>>
    /\ Len(ALL_RESULTS) = 126

\* A hit whose character_id is there and not empty once trimmed.
HasUsableId(h) ==
    /\ h.isdict /\ h.hasdoc /\ h.hascid
    /\ h.cid.t # "none"
    /\ h.cid.t = "int" => h.cid.n # 0
    /\ Strip(PyStr(h.cid)) # <<>>

\* The requests whose hits have been gone through.
RequestsDone == IF fPc = "await" THEN Len(reqLog) - 1 ELSE Len(reqLog)

\* The page and the trimmed ID of every usable hit of request r, in response
\* order, up to the first hit that is no dict.
UsableHitsOf(r) ==
    LET res == reqLog[r].result
        h(j) == Hit(res.pat, reqLog[r].page, j)
        upto == IF \E j \in 1..HitCount(res) : ~h(j).isdict
                THEN Min({j \in 1..HitCount(res) : ~h(j).isdict}) - 1
                ELSE HitCount(res)
        pos == SelectSeq([j \in 1..upto |-> j], LAMBDA j : HasUsableId(h(j)))
    IN  [k \in 1..Len(pos) |-> <<reqLog[r].page, Strip(PyStr(h(pos[k]).cid))>>]

RECURSIVE UsableHitsUpTo(_)
UsableHitsUpTo(r) == IF r = 0 THEN <<>> ELSE UsableHitsUpTo(r - 1) \o UsableHitsOf(r)

\* C6: at every point of a live crawl the i-th accumulated record has rank i,
\* and the records are, in page and response order, exactly the hits with a
\* usable character_id, each with the page of the request that returned it:
\* a hit without one is not appended and takes no rank.
C6_RanksAndPages ==
    Live =>
        /\ \A i \in DOMAIN ALL_RESULTS : ALL_RESULTS[i].rank = PyInt(i)
        /\ [i \in DOMAIN ALL_RESULTS |->
                <<ALL_RESULTS[i].page.n, ALL_RESULTS[i].character_id.s>>]
           = UsableHitsUpTo(RequestsDone)
        /\ \A i \in DOMAIN ALL_RESULTS :
              /\ ALL_RESULTS[i].character_id.t = "str"
              /\ ALL_RESULTS[i].character_id.s # <<>>
              /\ ALL_RESULTS[i].page.t = "int"

\* C6 witness: two pages gone through, the first with hits that were skipped.
C6_Witness ==
    /\ Live
    /\ RequestsDone = 2
    /\ reqLog[1].result = HitsDict(48, "dirty")
    /\ reqLog[2].result = HitsDict(30, "clean")
    /\ Len(ALL_RESULTS) > 30
    /\ Len(ALL_RESULTS) < 78
    /\ ALL_RESULTS[Len(ALL_RESULTS)].page = PyInt(2)

\* A valid snapshot: an array whose every element is a record
\* with a character_id.
ValidSnapshot(file) ==
    /\ file.st = "json"
    /\ file.val.t = "arr"
    /\ \A i \in DOMAIN file.val.a :
          /\ file.val.a[i].t = "obj"
          /\ \E m \in DOMAIN file.val.a[i].a : file.val.a[i].a[m].k = "character_id"

\* The records of a valid snapshot, in file order.
SnapshotRecords(file) == [i \in DOMAIN file.val.a |-> LoadsObj(file.val.a[i].a)]

\* The key a record is filed under: str(character_id).
KeyOf(rec) == PyStr(rec.character_id)

\* The call asked for the cache and found a valid snapshot.
CacheServed == top = "fetch" /\ fArgs.use_cache /\ ValidSnapshot(OwnFileBefore)

\* No Transport call was made.
NoTransportCall == reqLog = <<>> /\ msrPc = "idle" /\ nRequests = 0

\* C7 as stated: with use_cache and a valid snapshot of N records the call
\* returns exactly those N records, each under its character_id, and makes no
\* Transport call.
C7_AllSnapshotRecordsReturned ==
    CacheServed =>
        LET recs == SnapshotRecords(OwnFileBefore)
        IN  /\ fPc = "returned"
            /\ NoTransportCall
            /\ Cardinality(DOMAIN fetchRet) = Len(recs)
            /\ \A i \in DOMAIN recs :
                  KeyOf(recs[i]) \in DOMAIN fetchRet /\ fetchRet[KeyOf(recs[i])] = recs[i]

\* C7 amended: with use_cache and a valid snapshot the call returns at once,
\* without a Transport call and leaving the file alone, the mapping from
\* str(character_id) to the last record of the snapshot with that ID: every
\* ID of the snapshot is a key, every value is a record of the snapshot, and
\* when the IDs are pairwise distinct these are exactly the N records.
C7_SnapshotReturnedLastWins ==
    CacheServed =>
        LET recs == SnapshotRecords(OwnFileBefore)
            last(k) == Max({i \in DOMAIN recs : KeyOf(recs[i]) = k})
        IN  /\ fPc = "returned"
            /\ fLog.src = "cache"
            /\ NoTransportCall
            /\ fs = fsBefore
            /\ DOMAIN fetchRet = {KeyOf(recs[i]) : i \in DOMAIN recs}
            /\ \A k \in DOMAIN fetchRet : fetchRet[k] = recs[last(k)]
            /\ (\A i, j \in DOMAIN recs : KeyOf(recs[i]) = KeyOf(recs[j]) => i = j) =>
                  /\ Cardinality(DOMAIN fetchRet) = Len(recs)
                  /\ \A i \in DOMAIN recs : fetchRet[KeyOf(recs[i])] = recs[i]

\* C7 witness: a snapshot of two records with different IDs was returned.
C7_Witness ==
    /\ CacheServed
    /\ fPc = "returned"
    /\ Len(OwnFileBefore.val.a) = 2
    /\ Cardinality(DOMAIN fetchRet) = 2

\* The call asked for the cache and found a file that is no valid snapshot.
CacheUnusable ==
    /\ top = "fetch"
    /\ fArgs.use_cache
    /\ OwnFileBefore.st # "missing"
    /\ ~ValidSnapshot(OwnFileBefore)

\* The crawl, not the cache read, raised: a null hit on the latest page.
RaisedInCrawl ==
    /\ fPc = "raised"
    /\ reqLog # <<>>
    /\ \/ reqLog[Len(reqLog)].result.pat = "nullhit"
       \/ HitsRaise(reqLog[Len(reqLog)].result)

\* The call went to a live crawl and, if over, returned the crawl's result.
FellThroughToCrawl ==
    /\ fLog.src = "live"
    /\ fPc # "idle"
    /\ fPc = "raised" => RaisedInCrawl
    /\ fPc = "returned" => fetchRet = KeyedBy(ALL_RESULTS)
    /\ (fPc \in {"write", "returned"} /\ fArgs.max_pages >= 1) => reqLog # <<>>

\* C8 as stated: a cache file that cannot be read, cannot be parsed or does
\* not validate is logged as a failure and the call falls through to a live
\* crawl whose result it returns.
C8_CacheFailureLoggedAndCrawled ==
    CacheUnusable => (FellThroughToCrawl /\ fLog.cacheFail = 1)

\* Reading, parsing or testing the file raises: the file cannot be read, is
\* no JSON, or is an array in which the first element that is no record with
\* a character_id is a number or null, or in which a string or list passes
\* the test and is then subscripted.
CacheReadRaises(file) ==
    \/ file.st \in {"unreadable", "garbage"}
    \/ /\ file.st = "json"
       /\ file.val.t = "arr"
       /\ LET a == file.val.a
              failing == {i \in DOMAIN a : HasCharacterId(a[i]) # "yes"}
          IN  IF failing # {} THEN HasCharacterId(a[Min(failing)]) = "raise"
              ELSE \E i \in DOMAIN a : a[i].t # "obj"

\* C8 amended: a cache file that cannot be read, cannot be parsed or does not
\* validate never fails the call: it falls through to a live crawl and
\* returns that crawl's result.  The failure is logged when reading, parsing
\* or testing the file raises; a parsed value that merely fails the test (not
\* an array, or an element without character_id) falls through unlogged.
C8_CacheFailureCrawled ==
    CacheUnusable =>
        /\ FellThroughToCrawl
        /\ fLog.cacheFail = IF CacheReadRaises(OwnFileBefore) THEN 1 ELSE 0

\* C8 witness: an unreadable cache file was logged and the crawl that
\* followed returned records.
C8_Witness ==
    /\ CacheUnusable
    /\ OwnFileBefore.st = "unreadable"
    /\ fLog.cacheFail = 1
    /\ fPc = "returned"
    /\ fetchRet # <<>>

\* C9: after a live crawl that accepted a record and whose write succeeded
\* the cache file is an array of as many elements as the crawl accumulated,
\* element i being record i (of rank i); nothing of the previous content is
\* left.  A crawl that accepted a record always attempts the write.
C9_SnapshotIsTheCrawl ==
    /\ (Live /\ fPc = "returned" /\ ALL_RESULTS # <<>>) => fLog.write \in {"ok", "failed"}
    /\ (Live /\ fLog.write = "ok") =>
          /\ ALL_RESULTS # <<>>
          /\ OwnFile.st = "json"
          /\ OwnFile.val.t = "arr"
          /\ Len(OwnFile.val.a) = Len(ALL_RESULTS)
          /\ \A i \in DOMAIN ALL_RESULTS :
                /\ OwnFile.val.a[i].t = "obj"
                /\ Len(OwnFile.val.a[i].a) = Len(BotKeys)
                /\ LoadsObj(OwnFile.val.a[i].a) = ALL_RESULTS[i]
                /\ LoadsObj(OwnFile.val.a[i].a).rank = PyInt(i)

\* C9 witness: a crawl bypassing a valid snapshot replaced it.
C9_Witness ==
    /\ Live
    /\ fLog.write = "ok"
    /\ ~fArgs.use_cache
    /\ ValidSnapshot(OwnFileBefore)
    /\ Len(OwnFileBefore.val.a) = 2
    /\ Len(OwnFile.val.a) = 30

\* C10: a failed cache write raises nothing: the call returns the mapping of
\* the records it fetched, the one a successful write is followed by.
C10_WriteFailureIsNotFatal ==
    (Live /\ fLog.write # "none") =>
        /\ fPc = "returned"
        /\ ALL_RESULTS # <<>>
        /\ fetchRet = KeyedBy(ALL_RESULTS)
        /\ DOMAIN fetchRet = {ALL_RESULTS[i].character_id.s : i \in DOMAIN ALL_RESULTS}
        /\ fLog.writeFail = IF fLog.write = "failed" THEN 1 ELSE 0

\* C10 witness: the write failed after truncating the file, and the records
\* were returned.
C10_Witness ==
    /\ Live
    /\ fLog.write = "failed"
    /\ fPc = "returned"
    /\ OwnFile = FileGarbage
    /\ OwnFileBefore # FileGarbage
    /\ Cardinality(DOMAIN fetchRet) = 30

(***************************************************************************)
(* Properties of callers of fetch_typesense_top_bots.                      *)
(***************************************************************************)
\* The cache file of the mode the current call does not serve.
OtherCache == IF fArgs.filter THEN UNFILTERED_CACHE ELSE FILTERED_CACHE

\* C11: in every call of a sequence of fetch_typesense_top_bots calls the
\* cache file of the other filter mode is neither read, tested for existence
\* nor written, and holds what it held when the call began.
C11_OtherModeFileUntouched ==
    top = "fetch" =>
        /\ OtherCache \notin fLog.opened
        /\ fs[OtherCache] = fsBefore[OtherCache]
        /\ fLog.src = "cache" => fLog.opened = {~OtherCache}
        /\ fLog.write # "none" => fLog.opened = {~OtherCache}

\* C11 witness: a crawl of one mode wrote its snapshot, then a crawl of the
\* other mode wrote its own, and the first snapshot is still there.
C11_Witness ==
    /\ top = "fetch"
    /\ Len(history) = 1
    /\ history[1].args.filter # fArgs.filter
    /\ history[1].write = "ok"
    /\ fLog.write = "ok"
    /\ fs[OtherCache].st = "json"
    /\ fs[OtherCache] # fs[~OtherCache]
    /\ LoadCache(fs[OtherCache]).map = history[1].ret

\* The current tag-map call made a second fetch.
Refetched == history # <<>>

\* The arguments of the cache-preferring and of the live fetch of the tag map.
TagMapFirstArgs == [max_pages |-> 10, use_cache |-> TRUE, filter |-> FALSE]
TagMapSecondArgs == [max_pages |-> 10, use_cache |-> FALSE, filter |-> FALSE]

\* C12: get_typesense_tag_map makes at most two fetches.  The first is
\* unfiltered and cache-preferring with page ceiling 10; a second one is made
\* if and only if the first returned an empty mapping, it bypasses the cache,
\* and the tag map returned is built from the result of the last fetch made.
C12_TagMapFetches ==
    top = "tagmap" =>
        /\ Len(history) <= 1
        /\ (IF Refetched THEN history[1].args ELSE fArgs) = TagMapFirstArgs
        /\ Refetched =>
              /\ history[1].pc = "returned"
              /\ DOMAIN history[1].ret = {}
              /\ fArgs = TagMapSecondArgs
              /\ fLog.src = "live"
              /\ tmPc # "first"
        /\ ~Refetched => tmPc \in {"first", "returned", "raised"}
        /\ tmPc = "returned" =>
              /\ fPc = "returned"
              /\ ~Refetched => DOMAIN fetchRet # {}
              /\ DOMAIN tmRet = {k \in DOMAIN fetchRet :
                                    /\ "tags" \in DOMAIN fetchRet[k]
                                    /\ fetchRet[k].tags.t = "list"
                                    /\ fetchRet[k].tags.n > 0}
              /\ \A k \in DOMAIN tmRet : tmRet[k] = fetchRet[k].tags
        /\ tmPc = "raised" => fPc = "raised"

\* C12 witness: the cached snapshot was empty and the tag map was built from
\* the live fetch that followed.
C12_Witness ==
    /\ top = "tagmap"
    /\ tmPc = "returned"
    /\ Refetched
    /\ history[1].src = "cache"
    /\ Cardinality(DOMAIN fetchRet) = 30
    /\ Cardinality(DOMAIN tmRet) = 20

\* C16: every record of a mapping fetch_typesense_top_bots returns, from a
\* crawl or from the cache, has a non-empty string as character_id and is
\* filed under it; a cache file with an element whose character_id is null
\* or empty is not accepted.
C16_IdsAreNonEmptyStrings ==
    (top = "fetch" /\ fPc = "returned") =>
        /\ \A k \in DOMAIN fetchRet :
              /\ fetchRet[k].character_id.t = "str"
              /\ fetchRet[k].character_id.s # <<>>
              /\ k = fetchRet[k].character_id.s
        /\ fLog.src = "cache" =>
              \A i \in DOMAIN OwnFileBefore.val.a :
                 \A m \in DOMAIN OwnFileBefore.val.a[i].a :
                    OwnFileBefore.val.a[i].a[m].k = "character_id" =>
                       /\ OwnFileBefore.val.a[i].a[m].v.t # "null"
                       /\ OwnFileBefore.val.a[i].a[m].v # JStr(<<>>)

\* The pages the loop of the crawl can still ask for.
PagesLeft ==
    CASE fPc \in {"loop", "await"} ->
            IF page <= fArgs.max_pages THEN fArgs.max_pages - page + 1 ELSE 0
      [] OTHER -> 0

\* The HTTP requests the call can still make: three for every page not yet
\* asked for, and what the Transport call in progress has left.
HttpBudget ==
    CASE fPc = "loop" -> 3 * PagesLeft
      [] fPc = "await" ->
            3 * (PagesLeft - 1) + (IF msrPc = "loop" THEN 3 - attempt ELSE 0)
      [] OTHER -> 0

\* A number that every step of a fetch makes smaller.
Variant ==
    CASE fPc = "loop" -> 100 * (fArgs.max_pages - page + 1) + 50
      [] fPc = "await" ->
            100 * (fArgs.max_pages - page + 1)
            + (IF msrPc = "loop" THEN 20 + 2 * (3 - attempt) ELSE 10)
      [] fPc = "write" -> 2
      [] OTHER -> 0

\* The call is at a point of its control flow from which it goes on: the
\* head of the loop, a Transport call that is looping or is back, the write.
CanStep ==
    \/ fPc \in {"loop", "write"}
    \/ fPc = "await" /\ msrPc \in {"loop", "returned", "raised"}

\* C18: a call of fetch_typesense_top_bots ends whatever the remote returns.
\* It starts with a budget of 3 * max_pages HTTP requests, every request
\* takes one from the budget and the budget never grows or goes below zero;
\* it makes at most max_pages Transport calls of at most 3 attempts each;
\* and until it has returned or raised it can take a step, each step making
\* a natural number smaller.
C18_FetchTerminates ==
    /\ [](top = "fetch" =>
            /\ HttpBudget >= 0
            /\ HttpBudget <= 3 * fArgs.max_pages
            /\ Len(reqLog) <= fArgs.max_pages
            /\ nRequests <= 3
            /\ attempt <= 3
            /\ Variant >= 0
            /\ fPc \notin {"returned", "raised"} => CanStep)
    /\ [][(top = "fetch" /\ top' = "fetch") =>
            /\ Variant' < Variant
            /\ HttpBudget' <= HttpBudget
            /\ nRequests' = nRequests + 1 => HttpBudget' < HttpBudget
            /\ nRequests' # nRequests =>
                  (nRequests' = nRequests + 1 \/ (nRequests' = 0 /\ msrPc' # msrPc))]_vars

\* C18 witness: the Transport call for the last of three pages used its
\* three attempts, and nothing is left of the budget.
C18_Witness ==
    /\ top = "fetch"
    /\ fPc = "await"
    /\ fArgs.max_pages = 3
    /\ page = 3
    /\ msrPc = "returned"
    /\ nRequests = 3
    /\ termLogs = 1
    /\ HttpBudget = 0

\* C19: a live crawl that accepted no record leaves the cache files as it
\* found them, whatever they held, and returns the empty mapping; no file is
\* touched before the crawl is over.
C19_EmptyCrawlLeavesCache ==
    /\ (Live /\ fPc \in {"loop", "await", "write"}) => fs = fsBefore
    /\ (Live /\ fPc = "returned" /\ ALL_RESULTS = <<>>) =>
          /\ fs = fsBefore
          /\ DOMAIN fetchRet = {}
          /\ fLog.write = "none"
          /\ fLog.writeFail = 0

\* C19 witness: an invalid snapshot was passed over, the page fetched held no
\* hit with an ID, and the call returned.
C19_Witness ==
    /\ Live
    /\ fPc = "returned"
    /\ ALL_RESULTS = <<>>
    /\ fArgs.use_cache
    /\ OwnFileBefore = JsonFile(JObj(<<>>))
    /\ reqLog # <<>>
    /\ reqLog[1].result = HitsDict(30, "noid")

\* The fetch that ended right before the current one.
Previous == history[Len(history)]

\* C20: a fetch that follows, in the same mode and with use_cache, a crawl
\* that accepted a record and wrote its snapshot returns the mapping that
\* crawl returned, without a Transport call.
C20_CacheRoundTrip ==
    (/\ top = "fetch"
     /\ history # <<>>
     /\ Previous.pc = "returned"
     /\ Previous.src = "live"
     /\ Previous.write = "ok"
     /\ fArgs.use_cache
     /\ fArgs.filter = Previous.args.filter) =>
        /\ fPc = "returned"
        /\ fLog.src = "cache"
        /\ NoTransportCall
        /\ fetchRet = Previous.ret
        /\ DOMAIN fetchRet # {}
        /\ fs = fsBefore

\* C20 witness: the snapshot of a crawl that saw an ID several times was
\* read back.
C20_Witness ==
    /\ top = "fetch"
    /\ history # <<>>
    /\ Previous.src = "live"
    /\ Previous.write = "ok"
    /\ fArgs.use_cache
    /\ fArgs.filter = Previous.args.filter
    /\ fPc = "returned"
    /\ <<100, 117, 112>> \in DOMAIN fetchRet
    /\ fetchRet[<<100, 117, 112>>].rank.n > 3
    /\ Len(OwnFile.val.a) > Cardinality(DOMAIN fetchRet)

(***************************************************************************)
(* Properties of the batch lookups.                                        *)
(***************************************************************************)
\* The entries of bot_ids that are not None, "" or 0, as text.
KeptIds ==
    LET kept == SelectSeq(bArgs.bot_ids,
                          LAMBDA x : x # PyNone /\ x # PyString(<<>>) /\ x # PyInt(0))
    IN  [i \in DOMAIN kept |-> IF kept[i].t = "str" THEN kept[i].s ELSE PyStr(kept[i])]

\* The r-th window of at most 80 of them.
Window(r) == SubSeq(KeptIds, 80 * (r - 1) + 1, IF 80 * r < Len(KeptIds) THEN 80 * r ELSE Len(KeptIds))

\* ceil(n / 80)
Windows == (Len(KeptIds) + 79) \div 80

RECURSIVE IdsRequested(_)
IdsRequested(r) == IF r = 0 THEN <<>> ELSE IdsRequested(r - 1) \o bLog[r].ids

\* C13: a tags or ratings lookup issues one Transport call per window of at
\* most 80 of the kept IDs, in order: the calls made so far are for the first
\* windows and a lookup that returns has made ceil(n/80) of them, their
\* chunks concatenating to the kept IDs.  With no ID kept, each of the three
\* lookups returns {} without a Transport call.
C13_OneCallPerWindow ==
    /\ top \in {"tags", "ratings"} =>
          /\ Len(bLog) <= Windows
          /\ \A r \in DOMAIN bLog :
                /\ bLog[r].ids = Window(r)
                /\ Len(bLog[r].ids) \in 1..80
          /\ (bPc = "await") = (msrPc # "idle")
          /\ bPc = "await" =>
                /\ payload.ids = Window(Len(bLog))
                /\ payload.per_page = Len(Window(Len(bLog)))
          /\ bPc = "returned" =>
                /\ Len(bLog) = Windows
                /\ IdsRequested(Len(bLog)) = KeptIds
    /\ (top \in {"tags", "ratings", "created"} /\ KeptIds = <<>>) =>
          /\ bPc = "returned"
          /\ DOMAIN bOut = {}
          /\ bLog = <<>>
          /\ msrPc = "idle"
          /\ nRequests = 0

\* C13 witness: a lookup of 161 IDs returned after three Transport calls.
C13_Witness ==
    /\ top = "ratings"
    /\ bPc = "returned"
    /\ Len(KeptIds) = 161
    /\ Len(bLog) = 3
    /\ Len(bLog[3].ids) = 1
    /\ DOMAIN bOut # {}

\* The IDs of a chunk, as a set.
IdSet(ids) == {ids[i] : i \in DOMAIN ids}

\* The requests whose hits have been gone through.
ChunksDone == IF bPc = "await" THEN Len(bLog) - 1 ELSE Len(bLog)

\* What the hits of the response to request r put into the mapping.
ChunkOutput(r) ==
    LET pairs == HitPairs(top, bLog[r].result, bLog[r].ids, r)
    IN  MapOfPairs(pairs, 1, Len(pairs))

\* The per-chunk outputs of the requests gone through, in request order.
ChunkOutputs == [r \in 1..ChunksDone |-> ChunkOutput(r)]

\* No ID is in two of the chunks requested.
ChunksDisjoint ==
    LET sets == [r \in DOMAIN bLog |-> IdSet(bLog[r].ids)]
    IN  \A r1, r2 \in DOMAIN bLog : r1 < r2 => sets[r1] \cap sets[r2] = {}

\* The mapping is the union of these per-chunk outputs.
IsUnionOf(outs) ==
    /\ DOMAIN bOut = UNION {DOMAIN outs[r] : r \in DOMAIN outs}
    /\ \A r \in DOMAIN outs : [k \in DOMAIN outs[r] |-> bOut[k]] = outs[r]

\* C14 as stated: whenever more than 80 IDs are kept, no ID is in two chunks
\* and the mapping is the union of the per-chunk outputs.
C14_ChunksAlwaysDisjoint ==
    (top \in {"tags", "ratings"} /\ Len(bIds) > 80) =>
        /\ ChunksDisjoint
        /\ IsUnionOf(ChunkOutputs)

\* Every response so far held documents of IDs of its chunk only.
OnlyRequestedIds(outs) == \A r \in DOMAIN outs : DOMAIN outs[r] \subseteq IdSet(bLog[r].ids)

\* The per-chunk outputs 1..r merged in request order, later over earlier.
RECURSIVE MergedUpTo(_, _)
MergedUpTo(outs, r) == IF r = 0 THEN <<>> ELSE outs[r] @@ MergedUpTo(outs, r - 1)

\* The kept IDs are pairwise different.
KeptIdsDistinct == LET ids == KeptIds IN Cardinality(IdSet(ids)) = Len(ids)

\* C14 amended: when more than 80 IDs are kept and they are pairwise
\* different, no ID is in two chunks; if moreover every response holds only
\* documents of the IDs of its chunk, the per-chunk outputs have no key in
\* common and the mapping is their union.  In every case the mapping is the
\* per-chunk outputs merged in request order, a later chunk's value
\* replacing an earlier one's.
C14_DistinctIdsChunksDisjoint ==
    (top \in {"tags", "ratings"} /\ Len(bIds) > 80) =>
        LET outs == ChunkOutputs
        IN  /\ bOut = MergedUpTo(outs, Len(outs))
            /\ KeptIdsDistinct =>
                  /\ ChunksDisjoint
                  /\ OnlyRequestedIds(outs) =>
                        /\ \A r1, r2 \in DOMAIN outs :
                              r1 < r2 => DOMAIN outs[r1] \cap DOMAIN outs[r2] = {}
                        /\ IsUnionOf(outs)

\* C14 witness: 81 different IDs were looked up in two chunks and both
\* responses were filed.
C14_Witness ==
    /\ top = "tags"
    /\ bPc = "returned"
    /\ Len(bIds) = 81
    /\ KeptIdsDistinct
    /\ Len(bLog) = 2
    /\ OnlyRequestedIds(ChunkOutputs)
    /\ Cardinality(DOMAIN bOut) = 49

\* C15: the created_at lookup queries the collections in the order given; a
\* request to a collection holds, in input order and cut in windows of 80,
\* exactly the IDs that were no key of the output when the earlier
\* collections were done; a collection is queried only while an ID is
\* unresolved, and the lookup returns with an ID unresolved only after the
\* last collection.
C15_ResolvedIdsNotAskedAgain ==
    top = "created" =>
        LET ids == KeptIds
            colls == 1..Len(bArgs.collections)
            keys == [r \in 1..ChunksDone |-> DOMAIN ChunkOutput(r)]
        IN  /\ \A r \in DOMAIN bLog :
                  /\ bLog[r].coll \in colls
                  /\ r > 1 => bLog[r - 1].coll <= bLog[r].coll
                  /\ bLog[r].ids # <<>>
            /\ \A c \in colls :
                  LET \* the keys of the output when the collections before c are done
                      resolved == UNION {keys[r] : r \in {x \in DOMAIN keys : bLog[x].coll < c}}
                      due == SelectSeq(ids, LAMBDA id : id \notin resolved)
                      asked == SelectSeq([r \in DOMAIN bLog |-> r], LAMBDA r : bLog[r].coll = c)
                  IN  /\ asked # <<>> => due # <<>>
                      /\ \A x \in DOMAIN asked :
                            /\ IdSet(bLog[asked[x]].ids) \cap resolved = {}
                            /\ bLog[asked[x]].ids
                               = SubSeq(due, 80 * (x - 1) + 1,
                                        IF 80 * x < Len(due) THEN 80 * x ELSE Len(due))
                      /\ bPc = "returned" => (asked # <<>> \/ due = <<>>)

\* C15 witness: the first collection resolved 48 of 81 IDs and the second
\* one was asked for the 33 others only.
C15_Witness ==
    /\ top = "created"
    /\ bPc = "returned"
    /\ Len(bIds) = 81
    /\ Len(bArgs.collections) = 2
    /\ Len(bLog) = 3
    /\ bLog[1].result = HitsDict(per_page, "clean")
    /\ bLog[2].result = EmptyDict
    /\ bLog[3].coll = 2
    /\ Len(bLog[3].ids) = 33

\* C17: whatever the Transport returns, neither the crawl nor a batch lookup
\* raises.
C17_NothingRaises == fPc # "raised" /\ bPc # "raised" /\ tmPc # "raised"

=============================================================================
